---- MODULE Spec2Model ----
(*****************************************************************************)
(* Model of the stock-analyzer repository.                                   *)
(*                                                                           *)
(*   Spec          the trade ledger of src/trade_tracker.py (TradeTracker):  *)
(*                 log_signal and get_daily_report over the CSV ledger file. *)
(*   SpecEval      the rule evaluator of src/signal_evaluator.py             *)
(*                 (evaluate_signals).                                       *)
(*   SpecLabel     the labeller of src/prepare_target.py                     *)
(*                 (create_target_variable).                                 *)
(*   SpecBacktest  run_backtest of src/backtest.py from the split on.        *)
(*   SpecFetch     the retry loop of src/jquants_fetcher.py (_make_request). *)
(*   SpecSharing   two processes on one ledger file.                         *)
(*   SpecMonitor   the monitoring loops of src/main.py and src/predict.py.   *)
(*                                                                           *)
(* Prices are floats in the program.  They are modelled as integers in       *)
(* units of 1/PriceScale yen (binary fractions, exact in a float), with      *)
(* NaN for a missing quote.                                                  *)
(*****************************************************************************)
EXTENDS Integers, Sequences, FiniteSets, TLC

VARIABLES
    ledger,    \* the rows of trade_log.csv below the header, in file order
    daily,     \* the daily bars the price source has delivered so far
    call,      \* the last operation: its name, its stock code, the rows it completed
    report,    \* what the last get_daily_report returned
    lastDone,  \* file position of the entry that was set DONE last (0: none)
    table,     \* evaluate_signals: df_with_indicators of the last call
    rules,     \* evaluate_signals: signal_rules of the last call
    result,    \* evaluate_signals: outcome of the last call
    caller_df,   \* create_target_variable: the caller's table, one per series
    label_args,  \* create_target_variable: future_days and target_percent
    df_cleaned,  \* create_target_variable: outcome of the call, one per series
    dataset_len,     \* run_backtest: len(df_dataset)
    train_df,        \* run_backtest: the row positions of df_dataset in train_df
    test_df,         \* run_backtest: the row positions of df_dataset in test_df
    y_train,         \* run_backtest: the label values in train_df['Target']
    model_classes,   \* run_backtest: model.classes_ after fit
    bt_pc,           \* run_backtest: where the run stands
    loop_i,          \* run_backtest: i of the simulation loop
    current_budget,  \* run_backtest: cash
    position,        \* run_backtest: the shares bought and not yet sold
    decision,        \* run_backtest: what the last iteration read and decided
    outcome,         \* run_backtest: how the run ended
    FUTURE_DAYS,     \* run_backtest: the label horizon of the configuration
    trade_log,       \* run_backtest: the trades recorded so far
    request,     \* _make_request: method, and retry_count of the fetcher
    attempt,     \* _make_request: attempt of the retry loop
    response,    \* _make_request: the local variable response
    http_log,    \* _make_request: what each HTTP attempt ended in
    sleeps,      \* _make_request: the attempts after which time.sleep ran
    returned,    \* _make_request: whether it has returned, and what
    proc,        \* concurrent use of the ledger: where each process stands
    appended,    \* concurrent use: the keys of the rows log_signal has written
    resolved,    \* concurrent use: the keys of the rows written as DONE
    script,             \* monitoring run: "main.py" or "predict.py"
    stocks_to_monitor,  \* monitoring run: the stock_info entries of the configuration
    stock_no,           \* monitoring run: position of the for loop in stocks_to_monitor
    handled,            \* monitoring run: the stocks whose iteration has ended
    run_state,          \* monitoring run: running, completed (last log line) or raised
    prediction          \* monitoring run: the last prediction of predict.py

ledgerVars == <<ledger, daily, call, report, lastDone>>
evalVars == <<table, rules, result>>
labelVars == <<caller_df, label_args, df_cleaned>>
backtestVars ==
    <<dataset_len, train_df, test_df, y_train, model_classes, bt_pc, loop_i,
      current_budget, position, decision, outcome, FUTURE_DAYS, trade_log>>
fetchVars == <<request, attempt, response, http_log, sleeps, returned>>
sharingVars == <<proc, appended, resolved>>
monitorVars ==
    <<script, stocks_to_monitor, stock_no, handled, run_state, prediction>>
restVars == <<fetchVars, sharingVars, monitorVars>>
vars ==
    <<ledger, daily, call, report, lastDone, table, rules, result,
      caller_df, label_args, df_cleaned,
      dataset_len, train_df, test_df, y_train, model_classes, bt_pc, loop_i,
      current_budget, position, decision, outcome, FUTURE_DAYS, trade_log,
      restVars>>

-----------------------------------------------------------------------------
(* Bounds *)

MaxRows == 2          \* rows the ledger file may hold
MaxDay == 4           \* trading days of the calendar
MaxSignalDay == 2     \* latest day a signal is logged for
MaxFutureDays == 2    \* largest future_days passed to log_signal

(* Program values *)

PriceScale == 2       \* prices are counted in 1/PriceScale yen
NaN == -1             \* a float NaN (a quote the price source does not have)
Budget == 10          \* TradeTracker.budget, in yen

Days == 1..MaxDay
SignalDays == 1..MaxSignalDay
FutureDaysSet == 1..MaxFutureDays

\* "7203" reads back from the CSV as an integer, "130A" as a string.
NumericCodes == {"7203"}
Codes == NumericCodes \cup {"130A"}

\* Daily bars the price source may deliver: 1.5 -> 2.0, 12.5 -> 12.0,
\* and a day without quotes.
BarSet ==
    { [Open |-> 3, Close |-> 4],
      [Open |-> 25, Close |-> 24],
      [Open |-> NaN, Close |-> NaN] }

-----------------------------------------------------------------------------
(* Arithmetic of the floats and of int() and round() *)

\* int(x) for x = n / d, d > 0: truncation toward zero.
Trunc(n, d) == IF n >= 0 THEN n \div d ELSE -((-n) \div d)

\* round(n / d) to the nearest integer, ties to even, d > 0.
RoundHalfEven(n, d) ==
    LET q == n \div d
        r == n - q * d
    IN  IF 2 * r < d THEN q
        ELSE IF 2 * r > d THEN q + 1
        ELSE IF q % 2 = 0 THEN q ELSE q + 1

-----------------------------------------------------------------------------
(* The ledger file *)

\* new_row of log_signal.  stock_name, prob and threshold are written once and
\* read by no decision; they are left out of the row.
NewRow(date_str, code, future_days) ==
    [signal_date |-> date_str, stock_code |-> code, future_days |-> future_days,
     status |-> "PENDING", buy_price |-> 0, sell_price |-> 0, profit |-> 0,
     profit_rate |-> 0]

\* pd.read_csv infers the dtype of the stock_code column: int64 when every
\* cell is a number, object (strings) otherwise.
CodeColumnIsInt(file) == \A i \in 1..Len(file) : file[i].stock_code \in NumericCodes

\* df['stock_code'] == str(code), row i: an int64 cell never equals a string.
CodeMatches(file, i, code) ==
    IF CodeColumnIsInt(file) THEN FALSE ELSE file[i].stock_code = code

\* log_signal: the duplicate test.
Exists(file, date_str, code) ==
    \E i \in 1..Len(file) :
        file[i].signal_date = date_str /\ CodeMatches(file, i, code)

LogSignalFile(file, date_str, code, future_days) ==
    IF Len(file) > 0 /\ Exists(file, date_str, code)
    THEN file
    ELSE Append(file, NewRow(date_str, code, future_days))

-----------------------------------------------------------------------------
(* _evaluate_past_trades *)

\* df_daily.index.get_loc(signal_date), counted from 1; 0 when the date is not
\* in the index.
GetLoc(df_daily, signal_date) ==
    IF \E k \in 1..Len(df_daily) : df_daily[k].date = signal_date
    THEN CHOOSE k \in 1..Len(df_daily) : df_daily[k].date = signal_date
    ELSE 0

\* lots = int(self.budget / buy_price); if lots < 1: lots = 1
Lots(buy_price) ==
    LET lots == Trunc(Budget * PriceScale, buy_price)
    IN  IF lots < 1 THEN 1 ELSE lots

\* buy_price: the Open of the day after the signal day.
BuyPriceSignalDay(df_daily, s) == df_daily[s].Open
BuyPrice(df_daily, s) == df_daily[s + 1].Open

\* sell_price: the Close future_days after the signal day.
SellPrice(df_daily, s, future_days) == df_daily[s + future_days].Close

\* The body of the loop for one PENDING row: the row as it stands in df_log
\* afterwards, and whether it set updated.  An exception leaves the loop body
\* where it is raised, so the assignments made before it stay in df_log.
EvaluateRow(row, df_daily) ==
    LET s == GetLoc(df_daily, row.signal_date)
        n == Len(df_daily)
        same == [row |-> row, done |-> FALSE]
    IN  IF s = 0 THEN same                                \* date not in the index
        ELSE IF ~((s - 1) + row.future_days < n) THEN same  \* sell day not there yet
        ELSE IF s + 1 > n THEN same                       \* iloc[sig_loc + 1]: IndexError
        ELSE
          LET buy_price == BuyPrice(df_daily, s)
              sell_price == SellPrice(df_daily, s, row.future_days)
          IN  IF buy_price = NaN \/ buy_price = 0 THEN same   \* int(nan), int(inf) raise
              ELSE IF sell_price = NaN
              THEN                                         \* int(sell_price) raises
                [row |-> [row EXCEPT !.buy_price = Trunc(buy_price, PriceScale)],
                 done |-> FALSE]
              ELSE
                LET lots == Lots(buy_price)
                    profit == (sell_price - buy_price) * lots
                IN  [row |-> [row EXCEPT
                                !.buy_price = Trunc(buy_price, PriceScale),
                                !.sell_price = Trunc(sell_price, PriceScale),
                                !.profit = Trunc(profit, PriceScale),
                                !.profit_rate =
                                    RoundHalfEven(profit * 10000, buy_price * lots),
                                !.status = "DONE"],
                     done |-> TRUE]

\* targets: the PENDING rows of stock_code.
TargetsAnyStatus(file, stock_code) ==
    { i \in 1..Len(file) : CodeMatches(file, i, stock_code) }
Targets(file, stock_code) ==
    { i \in 1..Len(file) :
        CodeMatches(file, i, stock_code) /\ file[i].status = "PENDING" }

\* updated: some target row was completed.
Updated(file, stock_code, df_daily) ==
    \E i \in Targets(file, stock_code) : EvaluateRow(file[i], df_daily).done

\* The file after _evaluate_past_trades: df_log is written back only when
\* updated is set.
EvaluatePastTrades(file, stock_code, df_daily) ==
    IF Len(file) = 0 THEN file
    ELSE IF Updated(file, stock_code, df_daily)
    THEN [i \in 1..Len(file) |->
            IF i \in Targets(file, stock_code)
            THEN EvaluateRow(file[i], df_daily).row
            ELSE file[i]]
    ELSE file

\* The rows the loop completed.
Completed(file, stock_code, df_daily) ==
    { i \in Targets(file, stock_code) : EvaluateRow(file[i], df_daily).done }

\* The row the loop completed last (rows are visited in file order).
LastCompleted(file, stock_code, df_daily, old) ==
    LET D == Completed(file, stock_code, df_daily)
    IN  IF D = {} THEN old ELSE CHOOSE i \in D : \A j \in D : j <= i

-----------------------------------------------------------------------------
(* The messages of get_daily_report *)

IsDone(row) == row.status = "DONE"
IsWinOrDraw(row) == row.profit >= 0
IsWin(row) == row.profit > 0

RECURSIVE SumProfit(_)
SumProfit(rows) ==
    IF rows = <<>> THEN 0 ELSE Head(rows).profit + SumProfit(Tail(rows))

\* _get_latest_result_msg: None without a DONE row, else done.iloc[-1].  The
\* message carries the signal date, the icon and the profit of that row.
LatestResultMsg(file) ==
    LET done == SelectSeq(file, IsDone)
    IN  IF done = <<>>
        THEN [present |-> FALSE, signal_date |-> 0, win |-> FALSE, profit |-> 0,
              profit_rate |-> 0]
        ELSE LET last == done[Len(done)]
             IN  [present |-> TRUE, signal_date |-> last.signal_date,
                  win |-> last.profit > 0, profit |-> last.profit,
                  profit_rate |-> last.profit_rate]

\* _get_summary_msg: None without a DONE row.  win_rate is printed with one
\* decimal: it is counted in tenths of a percent.
SummaryMsg(file) ==
    LET done == SelectSeq(file, IsDone)
        total == Len(done)
        wins == Len(SelectSeq(done, IsWin))
    IN  IF done = <<>>
        THEN [present |-> FALSE, total |-> 0, wins |-> 0, losses |-> 0,
              win_rate |-> 0, total_profit |-> 0]
        ELSE [present |-> TRUE, total |-> total, wins |-> wins,
              losses |-> total - wins,
              win_rate |-> RoundHalfEven(wins * 1000, total),
              total_profit |-> SumProfit(done)]

-----------------------------------------------------------------------------
(* Operations of the ledger *)

\* df_daily as a caller passes it: the bars from position lo on.
Window(lo) == SubSeq(daily, lo, Len(daily))

\* Where a caller's history may start.  Histories that start after the last
\* day a signal is logged for all hold no signal date: one of them is kept.
WindowStarts ==
    1..(IF Len(daily) < MaxSignalDay THEN Len(daily) + 1 ELSE MaxSignalDay + 1)

DailyBar(d, bar) == [date |-> d, Open |-> bar.Open, Close |-> bar.Close]

\* The price source delivers the bar of the next trading day.
NewBar(bar) ==
    /\ Len(daily) < MaxDay
    /\ daily' = Append(daily, DailyBar(Len(daily) + 1, bar))
    /\ call' = [op |-> "new_bar", code |-> "", lo |-> 0, completed |-> {}]
    /\ UNCHANGED <<ledger, report, lastDone, evalVars, labelVars, backtestVars, restVars>>

\* The price source delivers the newest bar again with other quotes (the bar
\* of a running day, an adjusted close).
ReviseBar(bar) ==
    /\ Len(daily) > 0
    /\ bar.Open # NaN
    /\ daily' = [daily EXCEPT ![Len(daily)] = DailyBar(Len(daily), bar)]
    /\ daily' # daily
    /\ call' = [op |-> "revise_bar", code |-> "", lo |-> 0, completed |-> {}]
    /\ UNCHANGED <<ledger, report, lastDone, evalVars, labelVars, backtestVars, restVars>>

LogSignal(date_str, code, future_days) ==
    /\ Len(LogSignalFile(ledger, date_str, code, future_days)) <= MaxRows
    /\ ledger' = LogSignalFile(ledger, date_str, code, future_days)
    /\ call' = [op |-> "log_signal", code |-> code, lo |-> 0, completed |-> {}]
    /\ UNCHANGED <<daily, report, lastDone, evalVars, labelVars, backtestVars, restVars>>

GetDailyReport(stock_code, lo) ==
    /\ ledger' = EvaluatePastTrades(ledger, stock_code, Window(lo))
    /\ lastDone' = LastCompleted(ledger, stock_code, Window(lo), lastDone)
    /\ report' = [latest |-> LatestResultMsg(ledger'), summary |-> SummaryMsg(ledger')]
    /\ call' = [op |-> "get_daily_report", code |-> stock_code, lo |-> lo,
                completed |-> Completed(ledger, stock_code, Window(lo))]
    /\ UNCHANGED <<daily, evalVars, labelVars, backtestVars, restVars>>

LedgerInit ==
    /\ ledger = <<>>
    /\ daily = <<>>
    /\ call = [op |-> "init", code |-> "", lo |-> 0, completed |-> {}]
    /\ report = [latest |-> LatestResultMsg(<<>>), summary |-> SummaryMsg(<<>>)]
    /\ lastDone = 0

-----------------------------------------------------------------------------
(* evaluate_signals *)

MaxTableRows == 3     \* rows of df_with_indicators
MaxRules == 2         \* rules of signal_rules

\* Indicator values are floats, counted like the prices in 1/PriceScale.
\* The rows of the test data of signal_evaluator.py, and a row of a day whose
\* indicators are not defined yet.
IndicatorRows ==
    { [SMA_5 |-> 200, SMA_25 |-> 204, RSI_14 |-> 100],
      [SMA_5 |-> 202, SMA_25 |-> 202, RSI_14 |-> 120],
      [SMA_5 |-> 206, SMA_25 |-> 203, RSI_14 |-> 50],
      [SMA_5 |-> NaN, SMA_25 |-> NaN, RSI_14 |-> NaN] }

\* The columns the indicator engine was configured to add.
ColumnSets == { {"SMA_5", "SMA_25", "RSI_14"}, {"SMA_5", "SMA_25"} }

Restrict(f, cols) == [c \in cols |-> f[c]]

RowSeqs(S) == UNION { [1..n -> S] : n \in 0..MaxTableRows }

\* df_with_indicators: None, or a frame of 0..MaxTableRows rows.
NoneTable == [none |-> TRUE, rows |-> <<>>]
Tables ==
    {NoneTable} \cup
    { [none |-> FALSE, rows |-> [i \in 1..Len(rs) |-> Restrict(rs[i], cols)]]
      : rs \in RowSeqs(IndicatorRows), cols \in ColumnSets }

\* Condition strings.  A comparison of two operands, each a cell of latest or
\* previous or a literal; "malformed" is a string that does not parse.
Cell(r, c) == [src |-> r, col |-> c, lit |-> 0]
Lit(n) == [src |-> "lit", col |-> "", lit |-> n]
Cmp(l, op, r) == [kind |-> "cmp", l |-> l, op |-> op, r |-> r]
Malformed == [kind |-> "malformed", l |-> Lit(0), op |-> "", r |-> Lit(0)]

\* A rule without 'action' (or without 'rule_name') carries "".
Rule(name, action, conditions) ==
    [rule_name |-> name, action |-> action, conditions |-> conditions]

GoldenCross ==
    Rule("golden cross", "BUY",
         << Cmp(Cell("latest", "SMA_5"), ">", Cell("latest", "SMA_25")),
            Cmp(Cell("previous", "SMA_5"), "<=", Cell("previous", "SMA_25")),
            Cmp(Cell("latest", "RSI_14"), "<", Lit(140)) >>)
DeadCross ==
    Rule("dead cross", "SELL",
         << Cmp(Cell("latest", "SMA_5"), "<", Cell("latest", "SMA_25")),
            Cmp(Cell("previous", "SMA_5"), ">=", Cell("previous", "SMA_25")) >>)
RsiOversold ==
    Rule("rsi oversold", "BUY", << Cmp(Cell("latest", "RSI_14"), "<", Lit(60)) >>)
Uptrend ==
    Rule("uptrend", "SELL",
         << Cmp(Cell("latest", "SMA_5"), ">=", Cell("previous", "SMA_5")) >>)
MacdUp ==
    Rule("macd up", "SELL",
         << Cmp(Cell("latest", "SMA_5"), ">", Lit(0)),
            Cmp(Cell("latest", "MACD"), ">", Lit(0)) >>)
Broken == Rule("broken", "BUY", << Malformed >>)
NoAction ==
    Rule("no action", "", << Cmp(Cell("latest", "SMA_5"), ">", Lit(0)) >>)
NoConditions == Rule("no conditions", "BUY", <<>>)
\* action is whatever string the configuration carries.
StrongBuy ==
    Rule("strong buy", "STRONG_BUY", << Cmp(Cell("latest", "RSI_14"), "<", Lit(60)) >>)
StandAside ==
    Rule("stand aside", "HOLD", << Cmp(Cell("latest", "RSI_14"), ">=", Lit(100)) >>)

RuleSet ==
    { GoldenCross, DeadCross, RsiOversold, Uptrend, MacdUp, Broken, NoAction,
      NoConditions, StrongBuy, StandAside }

RuleLists == UNION { [1..n -> RuleSet] : n \in 0..MaxRules }

\* latest['col'] or previous['col'] or a literal: a value, or a KeyError.
Operand(o, latest, previous) ==
    IF o.src = "lit" THEN [ok |-> TRUE, v |-> o.lit]
    ELSE LET row == IF o.src = "latest" THEN latest ELSE previous
         IN  IF o.col \in DOMAIN row
             THEN [ok |-> TRUE, v |-> row[o.col]]
             ELSE [ok |-> FALSE, v |-> 0]

\* A comparison of floats: False as soon as one side is NaN.
Compare(op, x, y) ==
    IF x = NaN \/ y = NaN THEN FALSE
    ELSE IF op = "<" THEN x < y
    ELSE IF op = "<=" THEN x <= y
    ELSE IF op = ">" THEN x > y
    ELSE x >= y

\* bool(eval(condition_str)): "True", "False", or the exception raised.
CondValue(cond, latest, previous) ==
    IF cond.kind = "malformed" THEN "Exception"
    ELSE LET x == Operand(cond.l, latest, previous)
             y == Operand(cond.r, latest, previous)
         IN  IF ~x.ok \/ ~y.ok THEN "KeyError"
             ELSE IF Compare(cond.op, x.v, y.v) THEN "True" ELSE "False"

\* The loop over the conditions of one rule from condition j on: whether all
\* were met, whether one raised, and how many were evaluated.
RECURSIVE EvalConditions(_, _, _, _)
EvalConditions(conditions, j, latest, previous) ==
    IF j > Len(conditions) THEN [met |-> TRUE, raised |-> FALSE, n |-> j - 1]
    ELSE LET v == CondValue(conditions[j], latest, previous)
         IN  IF v = "True" THEN EvalConditions(conditions, j + 1, latest, previous)
             ELSE [met |-> FALSE, raised |-> v # "False", n |-> j]

\* if not action or not conditions: continue
SkippedWithoutAction(rule) == rule.action = ""
Skipped(rule) == rule.action = "" \/ rule.conditions = <<>>

\* The first guard of evaluate_signals.
InsufficientDataOneRow(df) == df.none \/ Len(df.rows) < 1
InsufficientData(df) == df.none \/ Len(df.rows) < 2

\* Where the loop goes on after a rule has fired (break) and after a condition
\* has raised (the handlers fall through to the next rule); n rules in all.
AfterFireNoBreak(k, n) == k + 1
AfterFire(k, n) == n + 1
AfterErrorAbort(k, n) == n + 1
AfterError(k, n) == k + 1

\* The messages of evaluation_details, in the source:
\*   MsgInsufficientData  "データ不足のため判定不可"
\*   MsgNoMatch           "合致するシグナルルールなし"
\*   MsgNoRules           "シグナルルール未設定"
\*   MsgMatched(name)     f"ルール '{rule_name}' に合致しました。"
MsgInsufficientData == <<"insufficient data">>
MsgNoMatch == <<"no rule matched">>
MsgNoRules == <<"no rules configured">>
MsgMatched(rule_name) == <<"rule matched", rule_name>>

\* evaluation_details.  The indicator values are rounded to two decimals,
\* which leaves a value counted in 1/PriceScale as it is.
Details(message, rule_applied, indicators) ==
    [message |-> message, rule_applied |-> rule_applied, indicators |-> indicators]
NoIndicators == [c \in {} |-> 0]
DetailColumns == {"RSI_14", "SMA_5", "SMA_25"}
FiredDetails(rule, latest) ==
    Details(MsgMatched(rule.rule_name), rule.rule_name,
            Restrict(latest, DetailColumns \cap DOMAIN latest))

\* not signal_rules
NoRulesNever(rs) == FALSE
NoRules(rs) == rs = <<>>

\* The loop over the rules from rule k on.  trace lists, for every rule whose
\* conditions were evaluated, its position and the number of conditions
\* evaluated.
RECURSIVE EvalRules(_, _, _, _, _, _, _)
EvalRules(rs, k, latest, previous, final_signal, evaluation_details, trace) ==
    IF k > Len(rs)
    THEN [signal |-> final_signal,
          details |-> IF final_signal = "HOLD" /\ NoRules(rs)
                      THEN Details(MsgNoRules, "", NoIndicators)
                      ELSE evaluation_details,
          trace |-> trace, raised |-> FALSE]
    ELSE IF Skipped(rs[k])
    THEN EvalRules(rs, k + 1, latest, previous, final_signal, evaluation_details, trace)
    ELSE LET c == EvalConditions(rs[k].conditions, 1, latest, previous)
             t == Append(trace, [rule |-> k, conditions |-> c.n])
         IN  IF c.met
             THEN EvalRules(rs, AfterFire(k, Len(rs)), latest, previous,
                            rs[k].action, FiredDetails(rs[k], latest), t)
             ELSE IF c.raised
             THEN EvalRules(rs, AfterError(k, Len(rs)), latest, previous,
                            final_signal, evaluation_details, t)
             ELSE EvalRules(rs, k + 1, latest, previous,
                            final_signal, evaluation_details, t)

\* latest = df_with_indicators.iloc[-1], previous = df_with_indicators.iloc[-2]
IlocFirst(df) == df.rows[1]
IlocLast(df) == df.rows[Len(df.rows)]
IlocSecondLast(df) == df.rows[Len(df.rows) - 1]

\* evaluate_signals(df_with_indicators, signal_rules).  raised: the call ends
\* in an exception (iloc[-2] of a frame of one row is an IndexError).
EvaluateSignals(df, rs) ==
    IF InsufficientData(df)
    THEN [signal |-> "HOLD",
          details |-> Details(MsgInsufficientData, "", NoIndicators),
          trace |-> <<>>, raised |-> FALSE]
    ELSE IF Len(df.rows) < 2
    THEN [signal |-> "", details |-> Details("", "", NoIndicators),
          trace |-> <<>>, raised |-> TRUE]
    ELSE EvalRules(rs, 1, IlocLast(df), IlocSecondLast(df),
                   "HOLD", Details(MsgNoMatch, "", NoIndicators), <<>>)

\* result before evaluate_signals has returned.
NotCalled == [called |-> FALSE, value |-> <<>>]

\* evaluate_signals is applied to the table and the rule list of the caller.
EvaluateSignalsCall ==
    /\ ~result.called
    /\ result' = [called |-> TRUE, value |-> EvaluateSignals(table, rules)]
    /\ UNCHANGED <<table, rules, ledgerVars, labelVars, backtestVars, restVars>>

\* The caller's table and rule list.
EvalInit ==
    /\ table \in Tables
    /\ rules \in RuleLists
    /\ result = NotCalled

-----------------------------------------------------------------------------
(* create_target_variable *)

MaxSeriesLen == 3     \* rows of the table passed to create_target_variable

TargetPercent == 25   \* target_percent: 1 + 25/100.0 and 1 - 25/100.0 are exact
ClosePrices == {75, 100, 125}

\* A DataFrame: its columns, the Close column, and the Target column (empty
\* while the frame has none).
Frame(close) == [columns |-> {"Close"}, Close |-> close, Target |-> <<>>]
Frames == { Frame(c) : c \in UNION { [1..n -> ClosePrices] : n \in 0..MaxSeriesLen } }

\* The two series whose labels are compared.
Series == {1, 2}

\* df['Close'].shift(-future_days), row i: NaN past the end of the series.
FuturePriceOfLastRow(close, i, future_days) == close[Len(close)]
FuturePrice(close, i, future_days) ==
    IF i + future_days <= Len(close) THEN close[i + future_days] ELSE NaN

\* future_price > buy_target_price, with buy_target_price =
\* Close * (1 + target_percent / 100.0); False for a NaN.
AboveBuyTarget(future_price, close_i, target_percent) ==
    future_price # NaN /\ future_price * 100 > close_i * (100 + target_percent)

\* future_price < sell_target_price, with sell_target_price =
\* Close * (1 - target_percent / 100.0); False for a NaN.
BelowSellTarget(future_price, close_i, target_percent) ==
    future_price # NaN /\ future_price * 100 < close_i * (100 - target_percent)

\* Target of row i: 0, then 1 where the buy target is passed, then -1 where
\* the sell target is passed.
TargetOf(close, i, future_days, target_percent) ==
    LET future_price == FuturePrice(close, i, future_days)
    IN  IF BelowSellTarget(future_price, close[i], target_percent) THEN -1
        ELSE IF AboveBuyTarget(future_price, close[i], target_percent) THEN 1
        ELSE 0

\* df after df['Target'] = ...: the column is added to the frame it is given.
WithTarget(frame, future_days, target_percent) ==
    [columns |-> frame.columns \cup {"Target"},
     Close |-> frame.Close,
     Target |-> [i \in 1..Len(frame.Close) |->
                   TargetOf(frame.Close, i, future_days, target_percent)]]

\* df.dropna(subset=['Target']): the rows whose Target is not NaN, in a new
\* frame.  Target is an int column: no row of it is NaN.
DropNaTarget(frame) == frame

\* create_target_variable(df, future_days, target_percent): the frame
\* returned, the caller's frame after the call, whether the call raised, and
\* whether the frame returned is the caller's object.
CreateTargetVariable(frame, future_days, target_percent) ==
    IF Len(frame.Close) = 0
    THEN [called |-> TRUE, raised |-> FALSE, input |-> frame, df |-> frame,
          ret |-> frame, same_object |-> TRUE]
    ELSE LET labelled == WithTarget(frame, future_days, target_percent)
         IN  [called |-> TRUE, raised |-> FALSE, input |-> frame, df |-> labelled,
              ret |-> DropNaTarget(labelled), same_object |-> FALSE]

LabelNotCalled ==
    [called |-> FALSE, raised |-> FALSE, input |-> Frame(<<>>), df |-> Frame(<<>>),
     ret |-> Frame(<<>>), same_object |-> FALSE]

\* create_target_variable is applied to series s of the caller.
CreateTargetVariableCall(s) ==
    /\ ~df_cleaned[s].called
    /\ LET r == CreateTargetVariable(caller_df[s], label_args.future_days,
                                     label_args.target_percent)
       IN  /\ df_cleaned' = [df_cleaned EXCEPT ![s] = r]
           /\ caller_df' = [caller_df EXCEPT ![s] = r.df]
    /\ UNCHANGED <<label_args, ledgerVars, evalVars, backtestVars, restVars>>

LabelInit ==
    /\ caller_df \in [Series -> Frames]
    /\ label_args \in [future_days : FutureDaysSet, target_percent : {TargetPercent}]
    /\ df_cleaned = [s \in Series |-> LabelNotCalled]

\* The labeller is not run.
LabelIdle ==
    /\ caller_df = [s \in Series |-> Frame(<<>>)]
    /\ label_args = [future_days |-> 1, target_percent |-> TargetPercent]
    /\ df_cleaned = [s \in Series |-> LabelNotCalled]

-----------------------------------------------------------------------------
(* run_backtest: the split, the fit and the simulation loop *)

MaxDatasetLen == 20   \* rows of a small df_dataset
MaxSimDays == 2       \* test days on which the classifier may reach the threshold

INITIAL_BUDGET == 300000
AI_THRESHOLD == 70    \* 0.70, probabilities counted in percent
TEST_DAYS == 60

\* len(df_dataset): small datasets, and the sizes around TEST_DAYS * 2.
DatasetLens ==
    (0..MaxDatasetLen) \cup {TEST_DAYS * 2 - 1, TEST_DAYS * 2, TEST_DAYS * 2 + 1}

\* buy_prob = probs[i][buy_class_index], in percent.
Probs == {AI_THRESHOLD - 1, AI_THRESHOLD, AI_THRESHOLD + 1}
ProbsAt(i) == IF i < MaxSimDays THEN Probs ELSE {AI_THRESHOLD - 1}

\* next_day_row: Open and Close of the next test day (pd.to_numeric(...,
\* errors='coerce') leaves NaN where the source has no number).
\* The amounts of money are counted in 1/PriceScale yen, as the prices are:
\* 100000 -> 110000, 300000 -> 290000, 100000 -> 100000.5 (stocks quoted in
\* ticks of less than a yen), and days without quotes.
Yen(n) == n * PriceScale

NextDayRows ==
    { [Open |-> Yen(100000), Close |-> Yen(110000)],
      [Open |-> Yen(300000), Close |-> Yen(290000)],
      [Open |-> Yen(100000), Close |-> Yen(100000) + 1],
      [Open |-> Yen(100000), Close |-> NaN],
      [Open |-> NaN, Close |-> NaN] }

Labels == {-1, 0, 1}

\* Float arithmetic with NaN.
Add(x, y) == IF x = NaN \/ y = NaN THEN NaN ELSE x + y
Sub(x, y) == IF x = NaN \/ y = NaN THEN NaN ELSE x - y
Mul(x, y) == IF x = NaN \/ y = NaN THEN NaN ELSE x * y
Geq(x, y) == x # NaN /\ y # NaN /\ x >= y

\* TEST_DAYS after lines 105-108: int(len(df_dataset) * 0.2) for a dataset
\* of fewer than TEST_DAYS * 2 rows.
TestDays(n) == IF n < TEST_DAYS * 2 THEN (n * 2) \div 10 ELSE TEST_DAYS

\* df_dataset.iloc[:-TEST_DAYS]: -0 is 0, so the slice is empty for 0.
TrainRows(n, t) == IF t = 0 THEN {} ELSE 1..(n - t)

\* df_dataset.iloc[-TEST_DAYS:]: -0 is 0, so the slice is the whole frame for 0.
TestRows(n, t) == IF t = 0 THEN 1..n ELSE (n - t + 1)..n

\* The label values a training partition of these rows can hold.
LabelSetsOf(rows) ==
    { c \in SUBSET Labels :
        /\ (rows = {}) = (c = {})
        /\ Cardinality(c) <= Cardinality(rows) }

\* qty = int(current_budget // next_day_open)
QtyRoundedUp(budget, open) == (budget \div open) + 1
Qty(budget, open) == budget \div open

\* if buy_prob >= AI_THRESHOLD and current_budget >= next_day_open
BuyCondition(buy_prob, budget, open) ==
    buy_prob >= AI_THRESHOLD /\ Geq(budget, open)

\* profit = sell_revenue - buy_cost
ProfitIsRevenue(sell_revenue, buy_cost) == sell_revenue
ProfitOf(sell_revenue, buy_cost) == Sub(sell_revenue, buy_cost)

\* 'Profit': int(profit), in yen.
RecordedProfit(p) == Trunc(p, PriceScale)

\* SignalDate and TradeDate are positions in test_df (i and i + 1).
NoPosition ==
    [qty |-> 0, Price_In |-> 0, Price_Out |-> 0, SignalDate |-> 0, TradeDate |-> 0]
NoDecision ==
    [buy_prob |-> 0, next_day_open |-> 0, budget |-> 0, action |-> "none"]

\* Lines 104-116: the split of df_dataset.
BtSplit ==
    /\ bt_pc = "split"
    /\ LET t == TestDays(dataset_len)
       IN  /\ train_df' = TrainRows(dataset_len, t)
           /\ test_df' = TestRows(dataset_len, t)
           /\ y_train' \in LabelSetsOf(TrainRows(dataset_len, t))
    /\ bt_pc' = "fit"
    /\ UNCHANGED <<dataset_len, model_classes, loop_i, current_budget, position,
                   decision, outcome, FUTURE_DAYS, trade_log>>
    /\ UNCHANGED <<ledgerVars, evalVars, labelVars, restVars>>

\* Line 123, model.fit(X_train, y_train), when it returns: classes_ are the
\* label values of y_train.  The library takes no empty training set.
BtFit ==
    /\ bt_pc = "fit"
    /\ train_df # {}
    /\ model_classes' = y_train
    /\ bt_pc' = "classes"
    /\ UNCHANGED <<dataset_len, train_df, test_df, y_train, loop_i,
                   current_budget, position, decision, outcome, FUTURE_DAYS, trade_log>>
    /\ UNCHANGED <<ledgerVars, evalVars, labelVars, restVars>>

\* Line 123 when the library raises: on an empty training set, and, in some
\* builds, on a training set of one class.
BtFitRaises ==
    /\ bt_pc = "fit"
    /\ Cardinality(y_train) < 2
    /\ bt_pc' = "done"
    /\ outcome' = "fit raised"
    /\ UNCHANGED <<dataset_len, train_df, test_df, y_train, model_classes, loop_i,
                   current_budget, position, decision, FUTURE_DAYS, trade_log>>
    /\ UNCHANGED <<ledgerVars, evalVars, labelVars, restVars>>

\* Lines 129-131: no class 1, the run returns.
BtNoBuyClass ==
    /\ bt_pc = "classes"
    /\ 1 \notin model_classes
    /\ bt_pc' = "done"
    /\ outcome' = "no buy class"
    /\ UNCHANGED <<dataset_len, train_df, test_df, y_train, model_classes, loop_i,
                   current_budget, position, decision, FUTURE_DAYS, trade_log>>
    /\ UNCHANGED <<ledgerVars, evalVars, labelVars, restVars>>

\* Lines 134-142: the simulation starts.
BtStartLoop ==
    /\ bt_pc = "classes"
    /\ 1 \in model_classes
    /\ current_budget' = Yen(INITIAL_BUDGET)
    /\ loop_i' = 0
    /\ trade_log' = <<>>
    /\ bt_pc' = "loop"
    /\ UNCHANGED <<dataset_len, train_df, test_df, y_train, model_classes,
                   position, decision, outcome, FUTURE_DAYS>>
    /\ UNCHANGED <<ledgerVars, evalVars, labelVars, restVars>>

\* Lines 146-170 of an iteration that buys: qty shares at the next open.
BtBuy(buy_prob, next_day_row) ==
    /\ bt_pc = "loop"
    /\ loop_i < Cardinality(test_df) - 1
    /\ BuyCondition(buy_prob, current_budget, next_day_row.Open)
    /\ Qty(current_budget, next_day_row.Open) > 0
    /\ LET qty == Qty(current_budget, next_day_row.Open)
       IN  /\ current_budget' = current_budget - qty * next_day_row.Open
           /\ position' = [qty |-> qty, Price_In |-> next_day_row.Open,
                           Price_Out |-> next_day_row.Close,
                           SignalDate |-> loop_i, TradeDate |-> loop_i + 1]
    /\ decision' = [buy_prob |-> buy_prob, next_day_open |-> next_day_row.Open,
                    budget |-> current_budget, action |-> "TRADE"]
    /\ bt_pc' = "bought"
    /\ UNCHANGED <<dataset_len, train_df, test_df, y_train, model_classes, loop_i,
                   outcome, FUTURE_DAYS, trade_log>>
    /\ UNCHANGED <<ledgerVars, evalVars, labelVars, restVars>>

\* Lines 174-192 of that iteration: the shares are sold at the close of the
\* same day and the trade is recorded.  int(profit) raises ValueError on a
\* NaN, after the cash was updated, and nothing catches it.
BtSell ==
    /\ bt_pc = "bought"
    /\ LET sell_revenue == Mul(position.qty, position.Price_Out)
           buy_cost == position.qty * position.Price_In
           gain == ProfitOf(sell_revenue, buy_cost)
       IN  /\ current_budget' = Add(current_budget, sell_revenue)
           /\ IF gain = NaN
              THEN /\ bt_pc' = "done"
                   /\ outcome' = "append raised"
                   /\ UNCHANGED <<loop_i, trade_log>>
              ELSE /\ trade_log' =
                        Append(trade_log,
                               [SignalDate |-> position.SignalDate,
                                TradeDate |-> position.TradeDate,
                                Price_In |-> position.Price_In,
                                Price_Out |-> position.Price_Out,
                                Qty |-> position.qty,
                                Profit |-> RecordedProfit(gain),
                                AI_Prob |-> decision.buy_prob])
                   /\ loop_i' = loop_i + 1
                   /\ bt_pc' = "loop"
                   /\ UNCHANGED outcome
    /\ position' = NoPosition
    /\ UNCHANGED <<dataset_len, train_df, test_df, y_train, model_classes,
                   decision, FUTURE_DAYS>>
    /\ UNCHANGED <<ledgerVars, evalVars, labelVars, restVars>>

\* An iteration that does not buy (action = "STAY").
BtStay(buy_prob, next_day_row) ==
    /\ bt_pc = "loop"
    /\ loop_i < Cardinality(test_df) - 1
    /\ ~( /\ BuyCondition(buy_prob, current_budget, next_day_row.Open)
          /\ Qty(current_budget, next_day_row.Open) > 0 )
    /\ decision' = [buy_prob |-> buy_prob, next_day_open |-> next_day_row.Open,
                    budget |-> current_budget, action |-> "STAY"]
    /\ loop_i' = loop_i + 1
    /\ UNCHANGED <<dataset_len, train_df, test_df, y_train, model_classes, bt_pc,
                   current_budget, position, outcome, FUTURE_DAYS, trade_log>>
    /\ UNCHANGED <<ledgerVars, evalVars, labelVars, restVars>>

\* Lines 194-237: the loop is over, the result is shown.
BtFinish ==
    /\ bt_pc = "loop"
    /\ ~(loop_i < Cardinality(test_df) - 1)
    /\ bt_pc' = "done"
    /\ outcome' = "finished"
    /\ UNCHANGED <<dataset_len, train_df, test_df, y_train, model_classes, loop_i,
                   current_budget, position, decision, FUTURE_DAYS, trade_log>>
    /\ UNCHANGED <<ledgerVars, evalVars, labelVars, restVars>>

\* run_backtest has df_dataset and is about to split it.
BacktestInit ==
    /\ dataset_len \in DatasetLens
    /\ train_df = {}
    /\ test_df = {}
    /\ y_train = {}
    /\ model_classes = {}
    /\ bt_pc = "split"
    /\ loop_i = 0
    /\ current_budget = Yen(INITIAL_BUDGET)
    /\ position = NoPosition
    /\ decision = NoDecision
    /\ outcome = ""
    /\ FUTURE_DAYS \in FutureDaysSet
    /\ trade_log = <<>>

\* run_backtest is not run.
BacktestIdle ==
    /\ dataset_len = 0
    /\ train_df = {}
    /\ test_df = {}
    /\ y_train = {}
    /\ model_classes = {}
    /\ bt_pc = "idle"
    /\ loop_i = 0
    /\ current_budget = Yen(INITIAL_BUDGET)
    /\ position = NoPosition
    /\ decision = NoDecision
    /\ outcome = ""
    /\ FUTURE_DAYS = 1
    /\ trade_log = <<>>

-----------------------------------------------------------------------------
(* JQuantsFetcher._make_request: the retry loop *)

MaxRetryCount == 2    \* largest retry_count of a fetcher

\* retry_count as the constructor takes it (3 by default); with -1 the loop
\* has no iteration.
RetryCounts == (-1)..MaxRetryCount

Methods == {"GET", "post", "PUT"}

\* method.upper() is 'GET' or 'POST'.
Supported(method) == method \in {"GET", "get", "POST", "post"}

\* What an HTTP attempt ends in: an exception of requests without a response,
\* or a response with its status code.
StatusCodes == {200, 404, 500}
Failures == {"Timeout", "RequestException"}
Raised(e) == [raised |-> e, status_code |-> 0]
Responded(code) == [raised |-> "", status_code |-> code]
AttemptResults ==
    { Raised(e) : e \in Failures } \cup { Responded(c) : c \in StatusCodes }
Responds(r) == r.raised = ""

\* response.raise_for_status() raises HTTPError for 400..599.
RaisesForStatus(code) == 400 <= code /\ code < 600

\* if 400 <= e.response.status_code < 500
ClientError(code) == 400 <= code /\ code < 500

\* if attempt < self.retry_count
SleepsAfterLast(k, retry_count) == k <= retry_count
SleepsAfter(k, retry_count) == k < retry_count

\* The local variable response before its first assignment.
Unbound == [bound |-> FALSE, attempt |-> -1, status_code |-> 0]
ResponseOf(k, code) == [bound |-> TRUE, attempt |-> k, status_code |-> code]

NotReturned == [done |-> FALSE, value |-> Unbound, line |-> 0]
Return(v, line) == [done |-> TRUE, value |-> v, line |-> line]

\* Lines 66-72 of the first iteration: the method is neither GET nor POST.
MakeRequestUnsupported ==
    /\ ~returned.done
    /\ attempt <= request.retry_count
    /\ ~Supported(request.method)
    /\ returned' = Return(Unbound, 72)
    /\ UNCHANGED <<request, attempt, response, http_log, sleeps>>
    /\ UNCHANGED <<ledgerVars, evalVars, labelVars, backtestVars, sharingVars,
                   monitorVars>>

\* Lines 64-98: one iteration of the loop, with what the HTTP attempt ends in.
MakeRequestAttempt(r) ==
    /\ ~returned.done
    /\ attempt <= request.retry_count
    /\ Supported(request.method)
    /\ http_log' = Append(http_log, r)
    /\ response' = IF Responds(r) THEN ResponseOf(attempt, r.status_code)
                               ELSE response
    /\ IF Responds(r) /\ ~RaisesForStatus(r.status_code)
       THEN /\ returned' = Return(response', 75)
            /\ UNCHANGED <<attempt, sleeps>>
       ELSE IF Responds(r) /\ ClientError(r.status_code)
       THEN /\ returned' = Return(response', 88)
            /\ UNCHANGED <<attempt, sleeps>>
       ELSE IF SleepsAfter(attempt, request.retry_count)
       THEN /\ sleeps' = Append(sleeps, attempt)
            /\ attempt' = attempt + 1
            /\ UNCHANGED returned
       ELSE /\ returned' = Return(response', 98)
            /\ UNCHANGED <<attempt, sleeps>>
    /\ UNCHANGED request
    /\ UNCHANGED <<ledgerVars, evalVars, labelVars, backtestVars, sharingVars,
                   monitorVars>>

\* Line 99: the loop has no iteration left.
MakeRequestLoopEnd ==
    /\ ~returned.done
    /\ attempt > request.retry_count
    /\ returned' = Return(Unbound, 99)
    /\ UNCHANGED <<request, attempt, response, http_log, sleeps>>
    /\ UNCHANGED <<ledgerVars, evalVars, labelVars, backtestVars, sharingVars,
                   monitorVars>>

\* _make_request is called on a fetcher.
FetchInit ==
    /\ request \in [method : Methods, retry_count : RetryCounts]
    /\ attempt = 0
    /\ response = Unbound
    /\ http_log = <<>>
    /\ sleeps = <<>>
    /\ returned = NotReturned

\* _make_request is not called.
FetchIdle ==
    /\ request = [method |-> "GET", retry_count |-> 0]
    /\ attempt = 0
    /\ response = Unbound
    /\ http_log = <<>>
    /\ sleeps = <<>>
    /\ returned = Return(Unbound, 0)

-----------------------------------------------------------------------------
(* Two processes on one ledger file: log_signal and _evaluate_past_trades,
   each split where it reads the file and where it writes it *)

Procs == {1, 2}

\* The price history both processes pass: every day has quotes.
QuotedDays == [d \in 1..MaxDay |-> DailyBar(d, [Open |-> 3, Close |-> 4])]

Resting == [pc |-> "idle", new_row |-> <<>>, df_log |-> <<>>]

KeyOf(r) == <<r.signal_date, r.stock_code>>

\* log_signal, lines 27-36: the file is read, no row of the day and the code
\* is found, new_row is built.
LogSignalRead(p, date_str, code, future_days) ==
    /\ proc[p].pc = "idle"
    /\ ~(Len(ledger) > 0 /\ Exists(ledger, date_str, code))
    /\ proc' = [proc EXCEPT ![p] =
                   [pc |-> "append",
                    new_row |-> <<NewRow(date_str, code, future_days)>>,
                    df_log |-> <<>>]]
    /\ UNCHANGED <<ledgerVars, appended, resolved>>
    /\ UNCHANGED <<evalVars, labelVars, backtestVars, fetchVars, monitorVars>>

\* log_signal, lines 37-39: new_row is appended to the file as it is now.
LogSignalAppend(p) ==
    /\ proc[p].pc = "append"
    /\ Len(ledger) < MaxRows
    /\ ledger' = Append(ledger, proc[p].new_row[1])
    /\ appended' = appended \cup {KeyOf(proc[p].new_row[1])}
    /\ proc' = [proc EXCEPT ![p] = Resting]
    /\ UNCHANGED <<daily, call, report, lastDone, resolved>>
    /\ UNCHANGED <<evalVars, labelVars, backtestVars, fetchVars, monitorVars>>

\* _evaluate_past_trades, lines 68-111: the file is read into df_log and the
\* PENDING rows of stock_code are completed in df_log.
ReconcileRead(p, stock_code) ==
    /\ proc[p].pc = "idle"
    /\ Len(ledger) > 0
    /\ Updated(ledger, stock_code, daily)
    /\ proc' = [proc EXCEPT ![p] =
                   [pc |-> "write", new_row |-> <<>>,
                    df_log |-> EvaluatePastTrades(ledger, stock_code, daily)]]
    /\ UNCHANGED <<ledgerVars, appended, resolved>>
    /\ UNCHANGED <<evalVars, labelVars, backtestVars, fetchVars, monitorVars>>

\* _evaluate_past_trades, lines 115-116: df_log replaces the file.
ReconcileWrite(p) ==
    /\ proc[p].pc = "write"
    /\ ledger' = proc[p].df_log
    /\ resolved' =
           resolved \cup
           { KeyOf(proc[p].df_log[i]) :
               i \in { j \in 1..Len(proc[p].df_log) : proc[p].df_log[j].status = "DONE" } }
    /\ proc' = [proc EXCEPT ![p] = Resting]
    /\ UNCHANGED <<daily, call, report, lastDone, appended>>
    /\ UNCHANGED <<evalVars, labelVars, backtestVars, fetchVars, monitorVars>>

\* An empty ledger, a price history, and two processes at rest.
SharingInit ==
    /\ ledger = <<>>
    /\ daily = QuotedDays
    /\ call = [op |-> "init", code |-> "", lo |-> 0, completed |-> {}]
    /\ report = [latest |-> LatestResultMsg(<<>>), summary |-> SummaryMsg(<<>>)]
    /\ lastDone = 0
    /\ proc = [p \in Procs |-> Resting]
    /\ appended = {}
    /\ resolved = {}

\* The ledger is used by one process at a time.
SharingIdle ==
    /\ proc = [p \in Procs |-> Resting]
    /\ appended = {}
    /\ resolved = {}

-----------------------------------------------------------------------------
(* The monitoring loops of main.py and predict.py *)

MaxStocks == 2        \* entries of stocks_to_monitor

DefaultAiThreshold == 75   \* stock_info.get('ai_threshold', 0.75), in percent

Scripts == {"main.py", "predict.py"}

StockInfos ==
    [enabled : BOOLEAN, on_buy_signal : BOOLEAN, on_hold_signal : BOOLEAN]

\* A classifier as joblib.load returns it: classes_ in sorted order, and the
\* row predict_proba gives for the latest data, one entry per class, in
\* percent.  Labels of train.py are -1, 0 and 1; older models have 0 and 1.
Classifiers ==
    { [classes_ |-> <<0, 1>>, proba |-> <<20, 80>>],
      [classes_ |-> <<0, 1>>, proba |-> <<80, 20>>],
      [classes_ |-> <<-1, 0, 1>>, proba |-> <<10, 10, 80>>],
      [classes_ |-> <<-1, 0, 1>>, proba |-> <<10, 80, 10>>] }

\* What the iteration for one stock meets: what the fetcher returns, whether
\* calculate_indicators adds the indicator columns or, after an exception it
\* caught, returns the copy of the prices, whether the prices have a Close
\* column, what evaluate_signals returns, whether the latest row has a NaN
\* feature, the classifier, and whether the notification is delivered.
Worlds ==
    { w \in [fetch : {"None", "empty", "rows"},
             indicators : {"ok", "failed"},
             close_column : BOOLEAN,
             signal : {"BUY", "HOLD"},
             latest_nan : BOOLEAN,
             ai_model : Classifiers,
             send_success : BOOLEAN] :
        ~w.close_column => w.indicators = "failed" }

\* seq[i] of Python: positions count from 0.
PyIndex(seq, i) == seq[i + 1]

\* list(seq).index(x), as a position of Python.
ListIndex(seq, x) == (CHOOSE k \in 1..Len(seq) : seq[k] = x) - 1

\* predict.py line 138: buy_probability = prediction_proba[0][1]
BuyProbability(ai_model) == PyIndex(ai_model.proba, 1)

\* backtest.py lines 134 and 152: probs[i][list(model.classes_).index(1)]
BuyClassProbability(ai_model) ==
    PyIndex(ai_model.proba, ListIndex(ai_model.classes_, 1))

\* predict.py lines 143-156
PredictedSignal(buy_probability, ai_threshold) ==
    IF buy_probability >= ai_threshold THEN "BUY" ELSE "HOLD"

\* The tests on notification_settings (lines 195-201 of main.py, 169-175 of
\* predict.py).
ShouldNotify(stock_info, signal) ==
    \/ signal = "BUY" /\ stock_info.on_buy_signal
    \/ signal = "HOLD" /\ stock_info.on_hold_signal

\* df_with_indicators.iloc[-1]['Close'] of the message raises KeyError when
\* the frame has no Close column (the index is the DatetimeIndex the fetcher
\* sets).
MessageRaises(w) == ~w.close_column

\* latest_data[feature_columns] at line 130 of predict.py raises KeyError when
\* the indicator columns are not in the frame.
FeaturesRaise(w) == w.indicators = "failed"

NoPrediction ==
    [made |-> FALSE, ai_model |-> [classes_ |-> <<>>, proba |-> <<>>],
     buy_probability |-> 0, ai_threshold |-> 0, signal |-> "HOLD"]

\* The iteration ends (at its last line or at a continue) and the loop goes on.
NextStock ==
    /\ handled' = handled \cup {stock_no}
    /\ stock_no' = stock_no + 1
    /\ UNCHANGED run_state

\* An exception leaves the loop and the script.
Abort ==
    /\ run_state' = "raised"
    /\ UNCHANGED <<handled, stock_no>>

\* main.py lines 132-247: the iteration for one stock.
ProcessStockMain(w) ==
    /\ script = "main.py"
    /\ run_state = "running"
    /\ stock_no <= Len(stocks_to_monitor)
    /\ LET stock_info == stocks_to_monitor[stock_no]
       IN  IF ~stock_info.enabled \/ w.fetch # "rows"
           THEN NextStock
           ELSE IF ShouldNotify(stock_info, w.signal) /\ MessageRaises(w)
           THEN Abort
           ELSE NextStock
    /\ UNCHANGED <<script, stocks_to_monitor, prediction>>
    /\ UNCHANGED <<ledgerVars, evalVars, labelVars, backtestVars, fetchVars,
                   sharingVars>>

\* predict.py lines 79-214: the iteration for one stock.
ProcessStockPredict(w) ==
    /\ script = "predict.py"
    /\ run_state = "running"
    /\ stock_no <= Len(stocks_to_monitor)
    /\ LET stock_info == stocks_to_monitor[stock_no]
           buy_probability == BuyProbability(w.ai_model)
           signal == PredictedSignal(buy_probability, DefaultAiThreshold)
       IN  IF ~stock_info.enabled \/ w.fetch # "rows"
           THEN NextStock /\ UNCHANGED prediction
           ELSE IF FeaturesRaise(w)
           THEN Abort /\ UNCHANGED prediction
           ELSE IF w.latest_nan
           THEN NextStock /\ UNCHANGED prediction
           ELSE /\ prediction' =
                       [made |-> TRUE, ai_model |-> w.ai_model,
                        buy_probability |-> buy_probability,
                        ai_threshold |-> DefaultAiThreshold, signal |-> signal]
                /\ NextStock
    /\ UNCHANGED <<script, stocks_to_monitor>>
    /\ UNCHANGED <<ledgerVars, evalVars, labelVars, backtestVars, fetchVars,
                   sharingVars>>

\* Line 249 of main.py, line 216 of predict.py: the completion log.
RunCompleted ==
    /\ run_state = "running"
    /\ stock_no > Len(stocks_to_monitor)
    /\ run_state' = "completed"
    /\ UNCHANGED <<script, stocks_to_monitor, stock_no, handled, prediction>>
    /\ UNCHANGED <<ledgerVars, evalVars, labelVars, backtestVars, fetchVars,
                   sharingVars>>

\* A script is about to enter its loop.
MonitorInit ==
    /\ script \in Scripts
    /\ stocks_to_monitor \in UNION { [1..n -> StockInfos] : n \in 0..MaxStocks }
    /\ stock_no = 1
    /\ handled = {}
    /\ run_state = "running"
    /\ prediction = NoPrediction

\* No script runs.
MonitorIdle ==
    /\ script = "main.py"
    /\ stocks_to_monitor = <<>>
    /\ stock_no = 1
    /\ handled = {}
    /\ run_state = "completed"
    /\ prediction = NoPrediction

-----------------------------------------------------------------------------
(* Specifications: each runs one component and leaves the others idle *)

\* The evaluator is not run.
EvalIdle ==
    /\ table = NoneTable
    /\ rules = <<>>
    /\ result = NotCalled

\* The ledger: log_signal and get_daily_report in any order, while the price
\* source delivers bars.
RestIdle == FetchIdle /\ SharingIdle /\ MonitorIdle

Init == LedgerInit /\ EvalIdle /\ LabelIdle /\ BacktestIdle /\ RestIdle

Next ==
    \/ \E b \in BarSet : NewBar(b)
    \/ \E b \in BarSet : ReviseBar(b)
    \/ \E d \in SignalDays, c \in Codes, f \in FutureDaysSet : LogSignal(d, c, f)
    \/ \E c \in Codes, lo \in WindowStarts : GetDailyReport(c, lo)

Spec == Init /\ [][Next]_vars

\* evaluate_signals on one table and one rule list.
InitEval == LedgerInit /\ EvalInit /\ LabelIdle /\ BacktestIdle /\ RestIdle

NextEval == EvaluateSignalsCall

SpecEval == InitEval /\ [][NextEval]_vars

\* create_target_variable on two series with the same arguments.
InitLabel == LedgerInit /\ EvalIdle /\ LabelInit /\ BacktestIdle /\ RestIdle

NextLabel == \E s \in Series : CreateTargetVariableCall(s)

SpecLabel == InitLabel /\ [][NextLabel]_vars

\* One run of run_backtest from the split on.
InitBacktest == LedgerInit /\ EvalIdle /\ LabelIdle /\ BacktestInit /\ RestIdle

NextBacktest ==
    \/ BtSplit
    \/ BtFit
    \/ BtFitRaises
    \/ BtNoBuyClass
    \/ BtStartLoop
    \/ \E p \in ProbsAt(loop_i), r \in NextDayRows : BtBuy(p, r)
    \/ BtSell
    \/ \E p \in ProbsAt(loop_i), r \in NextDayRows : BtStay(p, r)
    \/ BtFinish

SpecBacktest == InitBacktest /\ [][NextBacktest]_vars

\* One call of _make_request.
InitFetch ==
    /\ LedgerInit /\ EvalIdle /\ LabelIdle /\ BacktestIdle
    /\ FetchInit /\ SharingIdle /\ MonitorIdle

NextFetch ==
    \/ MakeRequestUnsupported
    \/ \E r \in AttemptResults : MakeRequestAttempt(r)
    \/ MakeRequestLoopEnd

SpecFetch == InitFetch /\ [][NextFetch]_vars

\* Two processes interleave their reads and writes of the ledger file.
InitSharing ==
    /\ SharingInit /\ EvalIdle /\ LabelIdle /\ BacktestIdle
    /\ FetchIdle /\ MonitorIdle

NextSharing ==
    \/ \E p \in Procs, d \in SignalDays, c \in Codes, f \in FutureDaysSet :
           LogSignalRead(p, d, c, f)
    \/ \E p \in Procs : LogSignalAppend(p)
    \/ \E p \in Procs, c \in Codes : ReconcileRead(p, c)
    \/ \E p \in Procs : ReconcileWrite(p)

SpecSharing == InitSharing /\ [][NextSharing]_vars

\* One run of a monitoring script.  The interpreter goes on with the script
\* as long as it has a statement to run.
InitMonitor ==
    /\ LedgerInit /\ EvalIdle /\ LabelIdle /\ BacktestIdle
    /\ FetchIdle /\ SharingIdle /\ MonitorInit

NextMonitor ==
    \/ \E w \in Worlds : ProcessStockMain(w)
    \/ \E w \in Worlds : ProcessStockPredict(w)
    \/ RunCompleted

SpecMonitor == InitMonitor /\ [][NextMonitor]_vars /\ WF_vars(NextMonitor)


-----------------------------------------------------------------------------
(* Properties of the ledger *)

SameKey(r1, r2) ==
    r1.signal_date = r2.signal_date /\ r1.stock_code = r2.stock_code

\* df_daily holds the signal date of row and the bar future_days after it.
HorizonIn(df_daily, row) ==
    LET s == GetLoc(df_daily, row.signal_date)
    IN  s # 0 /\ s + row.future_days <= Len(df_daily)

\* The two bars the outcome of row is computed from carry quotes.
QuotesIn(df_daily, row) ==
    LET s == GetLoc(df_daily, row.signal_date)
    IN  /\ df_daily[s + 1].Open # NaN
        /\ df_daily[s + 1].Open > 0
        /\ df_daily[s + row.future_days].Close # NaN

DoneRows == { i \in 1..Len(ledger) : ledger[i].status = "DONE" }

RECURSIVE ProfitOver(_)
ProfitOver(S) ==
    IF S = {} THEN 0
    ELSE LET i == CHOOSE x \in S : TRUE
         IN  ledger[i].profit + ProfitOver(S \ {i})

(* C1: after any sequence of log_signal and get_daily_report calls the ledger
   holds at most one row per (signal_date, stock_code), numeric codes such as
   7203 included. *)
C1_OneRowPerKey ==
    \A i, j \in 1..Len(ledger) : i # j => ~SameKey(ledger[i], ledger[j])

(* C2: a DONE entry is final: no later log_signal or get_daily_report changes
   its status, buy_price, sell_price, profit or profit_rate, and it never
   goes back to PENDING. *)
C2_DoneIsFinal ==
    [][\A i \in 1..Len(ledger) :
          ledger[i].status = "DONE" =>
              i <= Len(ledger') /\ ledger'[i] = ledger[i]]_vars

\* A reconcile for the code of an entry that was DONE before it, with a history
\* that holds the entry's horizon and whose quotes have changed since.
C2_Witness ==
    /\ call.op = "get_daily_report"
    /\ \E i \in DoneRows :
         /\ i \notin call.completed
         /\ CodeMatches(ledger, i, call.code)
         /\ HorizonIn(Window(call.lo), ledger[i])
         /\ QuotesIn(Window(call.lo), ledger[i])
         /\ LET s == GetLoc(Window(call.lo), ledger[i].signal_date)
            IN  Trunc(Window(call.lo)[s + 1].Open, PriceScale) # ledger[i].buy_price

(* C3: a PENDING entry of code c reconciled with a history that holds its
   signal date and the row future_days after it is DONE when get_daily_report
   returns.  Stated for histories whose rows carry quotes. *)
C3_ReconcileCompletes ==
    call.op = "get_daily_report" =>
        \A i \in 1..Len(ledger) :
            ( /\ ledger[i].stock_code = call.code
              /\ HorizonIn(Window(call.lo), ledger[i])
              /\ QuotesIn(Window(call.lo), ledger[i]) )
            => ledger[i].status = "DONE"

(* C4: an entry becomes DONE only inside a reconcile for its own code whose
   history holds its signal date and the row future_days after it; in every
   other case it stays PENDING with its fields unchanged. *)
C4_DoneOnlyByReconcile ==
    [][\A i \in 1..Len(ledger) :
          ledger[i].status = "PENDING" =>
              IF ledger'[i].status = "DONE"
              THEN /\ call'.op = "get_daily_report"
                   /\ call'.code = ledger[i].stock_code
                   /\ HorizonIn(SubSeq(daily', call'.lo, Len(daily')), ledger[i])
              ELSE ledger'[i] = ledger[i]]_vars

\* The position size of the claim: floor(budget / Open), at least 1.
PositionSize(open) ==
    IF (Budget * PriceScale) \div open < 1 THEN 1 ELSE (Budget * PriceScale) \div open

(* C5 (as amended): for an entry resolved by reconcile, with its signal date at
   index s of the history, the recorded buy_price is the Open at s+1 truncated
   to an integer, the recorded sell_price the Close at s+future_days truncated
   to an integer, the position size floor(budget / Open) but at least 1, and
   the recorded profit (Close - Open) * position size truncated toward zero. *)
C5_RecordedOutcome ==
    call.op = "get_daily_report" =>
        \A i \in call.completed :
            LET row == ledger[i]
                h == Window(call.lo)
                s == GetLoc(h, row.signal_date)
                open == h[s + 1].Open
                close == h[s + row.future_days].Close
            IN  /\ row.status = "DONE"
                /\ row.buy_price = Trunc(open, PriceScale)
                /\ row.sell_price = Trunc(close, PriceScale)
                /\ row.profit = Trunc((close - open) * PositionSize(open), PriceScale)

\* An entry with a horizon of two days resolved from a fractional Open.
C5_Witness ==
    /\ call.op = "get_daily_report"
    /\ \E i \in call.completed :
         LET h == Window(call.lo)
             s == GetLoc(h, ledger[i].signal_date)
         IN  /\ ledger[i].future_days = 2
             /\ h[s + 1].Open % PriceScale # 0
             /\ PositionSize(h[s + 1].Open) > 1

(* C5 (as claimed): the recorded buy_price is the Open at s+1, the recorded
   sell_price the Close at s+future_days, and the recorded profit is
   (sell_price - buy_price) * position size. *)
C5_RecordedExact ==
    call.op = "get_daily_report" =>
        \A i \in call.completed :
            LET row == ledger[i]
                h == Window(call.lo)
                s == GetLoc(h, row.signal_date)
                open == h[s + 1].Open
                close == h[s + row.future_days].Close
            IN  /\ row.buy_price * PriceScale = open
                /\ row.sell_price * PriceScale = close
                /\ row.profit = (row.sell_price - row.buy_price) * PositionSize(open)

(* C6: the latest result reported by get_daily_report is that of the entry
   that was completed most recently. *)
C6_LatestIsLastCompleted ==
    (call.op = "get_daily_report" /\ lastDone # 0) =>
        /\ report.latest.present
        /\ report.latest.signal_date = ledger[lastDone].signal_date
        /\ report.latest.profit = ledger[lastDone].profit
        /\ report.latest.profit_rate = ledger[lastDone].profit_rate

(* C7: the summary is computed over exactly the DONE entries of the ledger:
   trade_count their number, win_count those with profit > 0, the cumulative
   profit the sum of their profits, wins + losses = trade_count; PENDING
   entries contribute nothing. *)
C7_SummaryOverDone ==
    call.op = "get_daily_report" =>
        /\ report.summary.present = (DoneRows # {})
        /\ report.summary.total = Cardinality(DoneRows)
        /\ report.summary.wins =
               Cardinality({ i \in DoneRows : ledger[i].profit > 0 })
        /\ report.summary.wins + report.summary.losses = report.summary.total
        /\ report.summary.total_profit = ProfitOver(DoneRows)

\* A summary over a ledger with a PENDING entry and a DONE entry of profit 0.
C7_Witness ==
    /\ call.op = "get_daily_report"
    /\ report.summary.present
    /\ \E i \in 1..Len(ledger) : ledger[i].status = "PENDING"
    /\ \E i \in DoneRows : ledger[i].profit = 0

-----------------------------------------------------------------------------
(* Properties of evaluate_signals *)

Latest == table.rows[Len(table.rows)]
Previous == table.rows[Len(table.rows) - 1]

\* Rule k has an action and conditions, and each of its conditions is true
\* over the latest and the previous row.
Fires(k) ==
    /\ rules[k].action # ""
    /\ rules[k].conditions # <<>>
    /\ \A j \in 1..Len(rules[k].conditions) :
         CondValue(rules[k].conditions[j], Latest, Previous) = "True"

\* The evaluation of rule k runs into a condition that raises.
Raises(k) ==
    /\ rules[k].action # ""
    /\ \E j \in 1..Len(rules[k].conditions) :
         /\ CondValue(rules[k].conditions[j], Latest, Previous) \in {"KeyError", "Exception"}
         /\ \A i \in 1..(j - 1) :
              CondValue(rules[k].conditions[i], Latest, Previous) = "True"

FirstFiring(k) == Fires(k) /\ \A j \in 1..(k - 1) : ~Fires(j)

Evaluated(k) == \E t \in 1..Len(result.value.trace) : result.value.trace[t].rule = k

(* C8: with None, an empty table or a table of fewer than 2 rows,
   evaluate_signals returns HOLD with the message "insufficient data" for
   every rule list, evaluates no rule and does not raise. *)
C8_InsufficientDataHolds ==
    (result.called /\ (table.none \/ Len(table.rows) < 2)) =>
        /\ ~result.value.raised
        /\ result.value.signal = "HOLD"
        /\ result.value.details = Details(MsgInsufficientData, "", NoIndicators)
        /\ result.value.trace = <<>>

\* A table of one row on which the first rule of the list would hold.
C8_Witness ==
    /\ result.called
    /\ ~table.none
    /\ Len(table.rows) = 1
    /\ "RSI_14" \in DOMAIN table.rows[1]
    /\ table.rows[1]["RSI_14"] = 50
    /\ rules = <<RsiOversold>>

(* C9: for a table of at least 2 rows, evaluate_signals returns the action of
   the first rule of the list all of whose conditions are true over the
   latest and the previous row (a rule without action or without conditions
   has none to be true and is passed over), the explanation names that rule,
   and no rule after it is evaluated. *)
C9_FirstMatchWins ==
    (result.called /\ ~table.none /\ Len(table.rows) >= 2) =>
        \A k \in 1..Len(rules) :
            FirstFiring(k) =>
                /\ result.value.signal = rules[k].action
                /\ result.value.details.rule_applied = rules[k].rule_name
                /\ result.value.details.message = MsgMatched(rules[k].rule_name)
                /\ \A j \in (k + 1)..Len(rules) : ~Evaluated(j)

\* The golden cross over the last two rows of the test data gives BUY, with a
\* rule behind it that holds too and says SELL.
C9_Witness ==
    /\ result.called
    /\ ~table.none
    /\ Len(table.rows) = 3
    /\ table.rows[2] = [SMA_5 |-> 202, SMA_25 |-> 202, RSI_14 |-> 120]
    /\ table.rows[3] = [SMA_5 |-> 206, SMA_25 |-> 203, RSI_14 |-> 50]
    /\ rules = <<GoldenCross, Uptrend>>
    /\ Fires(2)
    /\ result.value.signal = "BUY"

(* C10: a rule one of whose conditions raises (missing column, malformed
   expression) does not fire, the evaluation goes on with the next rule,
   evaluate_signals does not raise, and a later rule whose conditions all
   hold determines the result. *)
C10_ErrorsSkipRule ==
    (result.called /\ ~table.none /\ Len(table.rows) >= 2) =>
        /\ ~result.value.raised
        /\ \A k \in 1..Len(rules) :
             (Raises(k) /\ \A j \in 1..(k - 1) : ~Fires(j)) =>
                 /\ result.value.details.rule_applied # rules[k].rule_name
                 /\ (k < Len(rules) /\ ~Skipped(rules[k + 1])) => Evaluated(k + 1)
                 /\ \A m \in (k + 1)..Len(rules) :
                      FirstFiring(m) =>
                          /\ result.value.signal = rules[m].action
                          /\ result.value.details.rule_applied = rules[m].rule_name

\* A rule that asks for a column the table does not have, then a rule that
\* holds.
C10_Witness ==
    /\ result.called
    /\ ~table.none
    /\ Len(table.rows) >= 2
    /\ rules = <<MacdUp, RsiOversold>>
    /\ Raises(1)
    /\ Fires(2)
    /\ result.value.signal = "BUY"

(* C11: for a table of at least 2 rows, when no rule of a non-empty list
   fires the result is HOLD with the message "no rule matched", when the list
   is empty it is HOLD with the message "no rules configured", and the
   explanation names a rule only if that rule fired. *)
C11_NoMatchHolds ==
    (result.called /\ ~table.none /\ Len(table.rows) >= 2) =>
        /\ (rules # <<>> /\ \A k \in 1..Len(rules) : ~Fires(k)) =>
               /\ result.value.signal = "HOLD"
               /\ result.value.details = Details(MsgNoMatch, "", NoIndicators)
        /\ rules = <<>> =>
               /\ result.value.signal = "HOLD"
               /\ result.value.details = Details(MsgNoRules, "", NoIndicators)
        /\ result.value.details.rule_applied # "" =>
               \E k \in 1..Len(rules) :
                   /\ Fires(k)
                   /\ rules[k].rule_name = result.value.details.rule_applied

\* The dead-cross rule on the test data (test case 2), behind a rule whose
\* condition raises.
C11_Witness ==
    /\ result.called
    /\ ~table.none
    /\ Len(table.rows) = 3
    /\ table.rows[2] = [SMA_5 |-> 202, SMA_25 |-> 202, RSI_14 |-> 120]
    /\ table.rows[3] = [SMA_5 |-> 206, SMA_25 |-> 203, RSI_14 |-> 50]
    /\ rules = <<Broken, DeadCross>>
    /\ result.value.details.message = MsgNoMatch

\* The empty rule list on a table of two rows.
C11_WitnessNoRules ==
    /\ result.called
    /\ ~table.none
    /\ Len(table.rows) = 2
    /\ rules = <<>>
    /\ result.value.details.message = MsgNoRules

(* C12: for every table and every rule list the signal returned by
   evaluate_signals is one of BUY, SELL, HOLD. *)
C12_SignalIsBuySellHold ==
    result.called => result.value.signal \in {"BUY", "SELL", "HOLD"}

-----------------------------------------------------------------------------
(* Properties of create_target_variable *)

\* The rows of series s that have a bar future_days ahead.
LabelledRows(s) ==
    { i \in 1..Len(df_cleaned[s].input.Close) :
        i + label_args.future_days <= Len(df_cleaned[s].input.Close) }

(* C13: row i is labelled BUY (1) if Close[i+future_days] >=
   Close[i]*(1+target_percent/100), SELL (-1) if Close[i+future_days] <=
   Close[i]*(1-target_percent/100), and HOLD (0) otherwise, a future close
   equal to a target price included. *)
C13_LabelsByTargets ==
    \A s \in Series :
        df_cleaned[s].called =>
            \A i \in LabelledRows(s) :
                LET close == df_cleaned[s].input.Close
                    future == close[i + label_args.future_days]
                    tp == label_args.target_percent
                IN  df_cleaned[s].ret.Target[i] =
                        IF future * 100 >= close[i] * (100 + tp) THEN 1
                        ELSE IF future * 100 <= close[i] * (100 - tp) THEN -1
                        ELSE 0

(* C14: for an input of n rows the output of create_target_variable has
   n - future_days rows (0 if n <= future_days): the trailing rows are
   dropped. *)
C14_TrailingRowsDropped ==
    \A s \in Series :
        df_cleaned[s].called =>
            LET n == Len(df_cleaned[s].input.Close)
            IN  Len(df_cleaned[s].ret.Close) =
                    IF n <= label_args.future_days THEN 0
                    ELSE n - label_args.future_days

(* C15: create_target_variable on an empty series ends in an error. *)
C15_EmptySeriesRaises ==
    \A s \in Series :
        (df_cleaned[s].called /\ Len(df_cleaned[s].input.Close) = 0) =>
            df_cleaned[s].raised

(* C16: the label of row i depends only on the close of row i and the close
   of row i + future_days: two series that agree on those two bars have the
   same label at i. *)
C16_LabelDependsOnTwoCloses ==
    (df_cleaned[1].called /\ df_cleaned[2].called) =>
        \A i \in LabelledRows(1) \cap LabelledRows(2) :
            LET a == df_cleaned[1].input.Close
                b == df_cleaned[2].input.Close
                k == i + label_args.future_days
            IN  (a[i] = b[i] /\ a[k] = b[k]) =>
                    df_cleaned[1].ret.Target[i] = df_cleaned[2].ret.Target[i]

\* Two series that agree on row i and on row i + future_days, differ in an
\* earlier bar and in a later one, and whose row i is labelled BUY.
C16_Witness ==
    /\ df_cleaned[1].called
    /\ df_cleaned[2].called
    /\ \E i \in LabelledRows(1) \cap LabelledRows(2) :
         LET a == df_cleaned[1].input.Close
             b == df_cleaned[2].input.Close
             k == i + label_args.future_days
         IN  /\ a[i] = b[i]
             /\ a[k] = b[k]
             /\ \E j \in 1..Len(a) : j \notin {i, k} /\ j <= Len(b) /\ a[j] # b[j]
             /\ df_cleaned[1].ret.Target[i] = 1

(* C17: the table passed to create_target_variable has the same columns and
   values after the call as before it. *)
C17_InputUnchanged ==
    \A s \in Series : df_cleaned[s].called => caller_df[s] = df_cleaned[s].input

-----------------------------------------------------------------------------
(* Properties of run_backtest *)

SplitDone == bt_pc \notin {"idle", "split"}

(* C18: the split is chronological: the training partition is the first 0.8
   fraction of the rows of the dataset and the test partition the remainder
   (the last int(0.2 * n) rows), the two are disjoint and cover the dataset,
   every training row precedes every test row, and the training partition
   is not empty for a dataset that has rows. *)
C18_ChronologicalSplit ==
    SplitDone =>
        /\ train_df \cap test_df = {}
        /\ train_df \cup test_df = 1..dataset_len
        /\ \A a \in train_df, b \in test_df : a < b
        /\ Cardinality(test_df) = (dataset_len * 2) \div 10
        /\ dataset_len >= 1 => train_df # {}

(* C19: a run whose training partition holds fewer than 2 distinct label
   values ends in DegenerateTrainingSetError before the classifier is fitted
   and before a trade is simulated, a partition whose one class is BUY (1)
   included. *)
C19_DegenerateRejected ==
    (SplitDone /\ bt_pc # "fit" /\ Cardinality(y_train) < 2) =>
        outcome = "DegenerateTrainingSetError"

\* The budget of the last decision covers the next open.
Affordable ==
    /\ decision.budget # NaN
    /\ decision.next_day_open # NaN
    /\ decision.budget >= decision.next_day_open

C20_LoopInvariant ==
    bt_pc \in {"loop", "bought", "done"} =>
        /\ current_budget = NaN \/ current_budget >= 0
        /\ position.qty > 0 => bt_pc = "bought"
        /\ decision.action = "TRADE" =>
               decision.buy_prob >= AI_THRESHOLD /\ Affordable
        /\ decision.action = "STAY" =>
               ~(decision.buy_prob >= AI_THRESHOLD /\ Affordable)
        /\ bt_pc = "bought" =>
               /\ decision.action = "TRADE"
               /\ position.Price_In = decision.next_day_open
               /\ position.qty = decision.budget \div decision.next_day_open
               /\ position.qty * position.Price_In <= decision.budget
               /\ current_budget = decision.budget - position.qty * position.Price_In

C20_PositionClosed ==
    bt_pc = "bought" =>
        /\ position' = NoPosition
        /\ \/ loop_i' = loop_i + 1 /\ bt_pc' = "loop"
           \/ bt_pc' = "done"

(* C20: in the simulation loop a trade is made at test index i exactly when
   probability[i] >= threshold and the budget covers the next day's open; the
   quantity is floor(budget / next_open), so the cost never exceeds the
   budget, the cash is never negative at any point of the loop, and a
   position is closed in the iteration that opens it. *)
C20_TradeRule == []C20_LoopInvariant /\ [][C20_PositionClosed]_vars

\* A later trade of the loop, made with the budget an earlier trade left, at
\* the moment the shares are bought.
C20_Witness ==
    /\ bt_pc = "bought"
    /\ loop_i >= 1
    /\ decision.budget # Yen(INITIAL_BUDGET)
    /\ position.qty > 1

\* What a recorded trade earned: Qty * (Price_Out - Price_In), in 1/PriceScale yen.
Earned(e) == e.Qty * (e.Price_Out - e.Price_In)

RECURSIVE SumEarned(_)
SumEarned(log) ==
    IF log = <<>> THEN 0 ELSE Earned(Head(log)) + SumEarned(Tail(log))

RECURSIVE SumRecorded(_)
SumRecorded(log) ==
    IF log = <<>> THEN 0 ELSE Head(log).Profit + SumRecorded(Tail(log))

\* The run is between two iterations of the loop, or has printed its result.
BetweenTrades == bt_pc = "loop" \/ outcome = "finished"

(* C21 (as amended): between the iterations of the loop and at the end of a
   run that reaches its result, the budget is the initial budget plus the
   sum over the trade log of Qty * (Price_Out - Price_In), exactly; the
   Profit recorded for a trade is that amount truncated toward zero to whole
   yen; every recorded trade had a probability of at least the threshold,
   so that a run with no such probability has no trades and a profit of 0. *)
C21_BudgetIsInitialPlusEarned ==
    BetweenTrades =>
        /\ current_budget = Yen(INITIAL_BUDGET) + SumEarned(trade_log)
        /\ \A k \in 1..Len(trade_log) :
               /\ trade_log[k].Profit = Trunc(Earned(trade_log[k]), PriceScale)
               /\ trade_log[k].AI_Prob >= AI_THRESHOLD
        /\ trade_log = <<>> => current_budget = Yen(INITIAL_BUDGET)

\* A finished run of two trades, one of which earned half a yen.
C21_Witness ==
    /\ outcome = "finished"
    /\ Len(trade_log) >= 2
    /\ \E k \in 1..Len(trade_log) : Earned(trade_log[k]) % PriceScale # 0
    /\ current_budget # Yen(INITIAL_BUDGET)

(* C21 (as claimed): at the end of every run the final budget is the initial
   budget plus the sum of the Profit values recorded in the trade log,
   exactly. *)
C21_BudgetIsInitialPlusRecorded ==
    outcome = "finished" =>
        current_budget = Yen(INITIAL_BUDGET + SumRecorded(trade_log))

\* The bar whose Close a trade is closed at, counted from the signal day:
\* next_day_close is the Close of test_df.iloc[i + 1].
ExitOffset(e) == e.TradeDate - e.SignalDate

(* C22: the exit of the backtest follows the convention that produced the
   labels: every trade is closed at the close of the bar FUTURE_DAYS after
   its signal day, which is the next day's close only for labels of a
   single day. *)
C22_ExitAtLabelHorizon ==
    \A k \in 1..Len(trade_log) : ExitOffset(trade_log[k]) = FUTURE_DAYS

\* The row of df_dataset whose Close the label of row j is computed from:
\* df['Close'].shift(-future_days), 0 where the shift runs off the end.
FutureRow(j, n, horizon) == IF j + horizon <= n THEN j + horizon ELSE 0

(* C25: the classifier is fitted only on rows that precede the test
   partition, and no label of a training row is computed from the Close of
   a bar of the test partition. *)
C25_NoLookAhead ==
    (SplitDone /\ train_df # {}) =>
        /\ \A a \in train_df, b \in test_df : a < b
        /\ \A j \in train_df :
               FutureRow(j, dataset_len, FUTURE_DAYS) \notin test_df

-----------------------------------------------------------------------------
(* Further properties of evaluate_signals *)

\* The tables of at least 2 rows whose last two rows are those of df.
SameLastTwoRows(df) ==
    { t \in Tables :
        /\ ~t.none
        /\ Len(t.rows) >= 2
        /\ t.rows[Len(t.rows)] = df.rows[Len(df.rows)]
        /\ t.rows[Len(t.rows) - 1] = df.rows[Len(df.rows) - 1] }

C24_SameResult ==
    (result.called /\ ~table.none /\ Len(table.rows) >= 2) =>
        \A t \in SameLastTwoRows(table) :
            /\ EvaluateSignals(t, rules).signal = result.value.signal
            /\ EvaluateSignals(t, rules).details = result.value.details
            /\ EvaluateSignals(t, rules).raised = result.value.raised

C24_InputsKept == table' = table /\ rules' = rules

(* C24: evaluate_signals is idempotent and reads only the last two rows of
   the table: an evaluation with the same rule list on any table of at least
   2 rows whose last two rows are equal (the same table included) returns
   the same signal and the same explanation, and a call leaves the table and
   the rule list as they were. *)
C24_ReadsLastTwoRows == []C24_SameResult /\ [][C24_InputsKept]_vars

\* A rule has fired on a table of 3 rows whose first row differs from the
\* row before the last.
C24_Witness ==
    /\ result.called
    /\ ~table.none
    /\ Len(table.rows) = 3
    /\ table.rows[1] # table.rows[2]
    /\ result.value.signal = "SELL"
    /\ Cardinality(SameLastTwoRows(table)) > 2

\* Rule k has no action or no conditions.
Incomplete(k) == rules[k].action = "" \/ rules[k].conditions = <<>>

(* C30: a rule with no action or with an empty condition list never fires:
   none of its conditions is evaluated, the result never names it, and the
   evaluation goes on with the next rule, so that the first later rule whose
   conditions all hold gives the signal, and a list of such rules alone
   gives HOLD with "no rule matched". *)
C30_IncompleteRuleSkipped ==
    (result.called /\ ~table.none /\ Len(table.rows) >= 2) =>
        /\ \A k \in 1..Len(rules) :
               Incomplete(k) =>
                   /\ ~Evaluated(k)
                   /\ result.value.details.rule_applied # rules[k].rule_name
                   /\ \A j \in (k + 1)..Len(rules) :
                          FirstFiring(j) =>
                              /\ result.value.signal = rules[j].action
                              /\ Evaluated(j)
        /\ (rules # <<>> /\ \A k \in 1..Len(rules) : Incomplete(k)) =>
               /\ result.value.signal = "HOLD"
               /\ result.value.details = Details(MsgNoMatch, "", NoIndicators)

\* A rule without conditions stands before a rule that fires.
C30_Witness ==
    /\ result.called
    /\ ~table.none
    /\ Len(table.rows) >= 2
    /\ rules = <<NoConditions, DeadCross>>
    /\ result.value.signal = "SELL"

-----------------------------------------------------------------------------
(* Properties of _make_request *)

\* An attempt after which _make_request returns at once: a response that is
\* no HTTP error, or a 4xx.
Final(r) ==
    Responds(r) /\ (~RaisesForStatus(r.status_code) \/ ClientError(r.status_code))

\* The attempts the loop may make.
MaxAttempts == IF request.retry_count >= 0 THEN request.retry_count + 1 ELSE 0

\* 0, 1, ..., m - 1
FirstAttempts(m) == [k \in 1..m |-> k - 1]

(* C27: _make_request makes at most retry_count + 1 HTTP attempts and has
   returned when they are used up; it returns at the first success and at
   once on a 4xx, with that response; it sleeps retry_delay once after every
   attempt that is followed by another and never after the last; for an
   unsupported method it makes no attempt and returns None. *)
C27_BoundedRetries ==
    LET n == Len(http_log)
    IN  /\ n <= MaxAttempts
        /\ (n >= 1 /\ n = MaxAttempts) => returned.done
        /\ \A k \in 1..(n - 1) : ~Final(http_log[k])
        /\ (n >= 1 /\ Final(http_log[n])) =>
               /\ returned.done
               /\ returned.value = ResponseOf(n - 1, http_log[n].status_code)
        /\ sleeps = FirstAttempts(IF returned.done /\ n >= 1 THEN n - 1 ELSE n)
        /\ \A k \in 1..Len(sleeps) : sleeps[k] < request.retry_count
        /\ ~Supported(request.method) =>
               /\ n = 0
               /\ returned.done => returned.value = Unbound

\* A success at the third attempt of a fetcher with retry_count 2.
C27_Witness ==
    /\ returned.done
    /\ request.retry_count = 2
    /\ Len(http_log) = 3
    /\ http_log[1] = Raised("Timeout")
    /\ http_log[2] = Responded(500)
    /\ http_log[3] = Responded(200)
    /\ sleeps = <<0, 1>>

(* C28: when the retries are used up, _make_request returns the response of
   the final attempt if that attempt produced one and None otherwise, never
   the response of an earlier attempt. *)
C28_FinalAttemptResponse ==
    (returned.done /\ returned.line = 98) =>
        LET n == Len(http_log)
        IN  returned.value =
                IF Responds(http_log[n])
                THEN ResponseOf(n - 1, http_log[n].status_code)
                ELSE Unbound

-----------------------------------------------------------------------------
(* Properties of the ledger under concurrent use *)

HasRow(file, key) == \E i \in 1..Len(file) : KeyOf(file[i]) = key

HasDoneRow(file, key) ==
    \E i \in 1..Len(file) : KeyOf(file[i]) = key /\ file[i].status = "DONE"

(* C26: no ledger entry is lost under concurrent use: when the
   read-modify-write of reconcile is interleaved with an append of
   log_signal or with another reconcile, every entry that was appended is
   still in the file and every outcome that was written as DONE is still
   DONE in the file. *)
C26_NoEntryLost ==
    /\ \A key \in appended : HasRow(ledger, key)
    /\ \A key \in resolved : HasDoneRow(ledger, key)

-----------------------------------------------------------------------------
(* Properties of the monitoring loops *)

Enabled == { k \in 1..Len(stocks_to_monitor) : stocks_to_monitor[k].enabled }

(* C23: the monitoring loop is fault-isolated: whatever fails for one stock
   (the fetch returns nothing, the indicators fail, the rule or the
   prediction raises, a column of the message is missing, the notification
   fails), every enabled stock after it is processed and the run reaches its
   completion log. *)
C23_RunCompletes ==
    <>(run_state = "completed" /\ Enabled \subseteq handled)

(* C29: the probability compared with the threshold is the probability the
   classifier gives to the BUY class (label 1), for a classifier of the
   three classes -1, 0, 1 too, and the signal is BUY exactly when that
   probability is at least the threshold and HOLD otherwise. *)
C29_BuyClassCompared ==
    prediction.made =>
        /\ prediction.buy_probability = BuyClassProbability(prediction.ai_model)
        /\ (prediction.signal = "BUY") =
               (BuyClassProbability(prediction.ai_model) >= prediction.ai_threshold)
        /\ prediction.signal \in {"BUY", "HOLD"}

====
